---- MODULE Spec2Model ----
(***************************************************************************)
(* Model of src/crawler.js: the crawl loop of main() and the retry wrapper *)
(* callGithub().  callGithub() delegates to the npm package async-retry    *)
(* (on top of node-retry); the model follows what those packages do with   *)
(* the options written in callGithub (retries, minTimeout, factor).        *)
(*                                                                         *)
(* A step of the model is what the program does between two awaits: the    *)
(* handler that runs when a promise or a timer completes, up to the next   *)
(* await.                                                                  *)
(***************************************************************************)
EXTENDS Integers, Sequences, FiniteSets, TLC

\* ---------------------------------------------------------------- bounds
\* Cap on the page counter (number of page requests of one run).
MaxPage == 3

\* ------------------------------------------------------ program constants
PAGE_SIZE == 100
RETRIES == 5
MIN_TIMEOUT == 1000
FACTOR == 2
RL_THRESHOLD == 10
RL_MIN_WAIT == 1000
RL_MARGIN == 2000
ERROR_SLEEP == 5000
DB_SLEEP == 3000
THROTTLE_SLEEP == 200
Q == "stars:>0"

\* ----------------------------------------------------------- input sets
\* Values of TARGET_REPOS (process.env.TARGET_REPOS) a run may start with.
Targets == {-1, 0, 150, 250}
\* Number of edges a response page may carry.
EdgeCounts == {0, 50, 100}
\* Math.random() + 1 of node-retry's createTimeout, in thousandths, for the
\* successive timeouts of one operation.
RandomRuns == {<<1000, 1000, 1000, 1000, 1000>>,
               <<1999, 1500, 1001, 1999, 1000>>}
\* Ways a transport attempt fails (distinct error messages).
FailureKinds == {"network", "http5xx", "http401"}
\* Date.now() and rateLimit.resetAt, in ms.
Nows == {100000, 101000}
ResetAts == {90000, 100000, 130000}
LowRemainings == {5, 10}
HighRemaining == 11

\* Cursors: null, the empty string, and the opaque tokens of the remote.
NullCursor == "null"
EmptyCursor == ""
Tokens == <<"c1", "c2", "c3", "c4", "c5", "c6", "c7", "c8">>

\* The remote's endCursor for the page that a request with cursor c asks for.
RECURSIVE TokenIndex(_, _)
TokenIndex(c, i) ==
  IF i > Len(Tokens) THEN 0
  ELSE IF Tokens[i] = c THEN i ELSE TokenIndex(c, i + 1)

PagePos(c) == IF c = NullCursor THEN 0 ELSE TokenIndex(c, 1)

NextToken(c) == Tokens[PagePos(c) + 1]

\* ------------------------------------------------------------- responses
NoRL == [present |-> FALSE, remaining |-> 0, resetAt |-> 0]
NoSearch == [present |-> FALSE, edges |-> 0, endCursor |-> NullCursor,
             hasNextPage |-> FALSE]
NoData == [errors |-> FALSE, hasData |-> FALSE, rateLimit |-> NoRL,
           search |-> NoSearch]

\* Quota snapshots above the threshold (or none), and at or below it.
HighRateLimits ==
  {NoRL, [present |-> TRUE, remaining |-> HighRemaining, resetAt |-> 130000]}

LowRateLimits ==
  {[present |-> TRUE, remaining |-> r, resetAt |-> t] :
     r \in LowRemainings, t \in ResetAts}

Searches(req) ==
  {NoSearch} \cup
  {[present |-> TRUE, edges |-> n, endCursor |-> e, hasNextPage |-> h] :
     n \in EdgeCounts,
     e \in {NextToken(req.after), NullCursor, EmptyCursor},
     h \in BOOLEAN}

\* The search results that come with a low quota snapshot: none, an empty
\* page, a full page.
LowQuotaSearches(req) ==
  {NoSearch,
   [present |-> TRUE, edges |-> 0, endCursor |-> NextToken(req.after),
    hasNextPage |-> TRUE],
   [present |-> TRUE, edges |-> 100, endCursor |-> NextToken(req.after),
    hasNextPage |-> TRUE]}

\* Response bodies (resp.data of axios) the remote may answer a request with.
Responses(req) ==
  {[errors |-> FALSE, hasData |-> TRUE, rateLimit |-> rl, search |-> s] :
     rl \in HighRateLimits, s \in Searches(req)}
  \cup {[errors |-> FALSE, hasData |-> TRUE, rateLimit |-> rl, search |-> s] :
          rl \in LowRateLimits, s \in LowQuotaSearches(req)}
  \cup {[errors |-> TRUE, hasData |-> FALSE, rateLimit |-> NoRL,
         search |-> NoSearch]}
  \cup {[errors |-> TRUE, hasData |-> TRUE,
         rateLimit |-> [present |-> TRUE, remaining |-> 5, resetAt |-> 130000],
         search |-> [present |-> TRUE, edges |-> 50,
                     endCursor |-> NextToken(req.after),
                     hasNextPage |-> TRUE]]}
  \cup {[errors |-> FALSE, hasData |-> FALSE, rateLimit |-> NoRL,
         search |-> NoSearch]}

\* ------------------------------------------------------------ variables
VARIABLES
  pc,          \* the await main() is suspended at
  target,      \* TARGET_REPOS
  collected,   \* let collected
  after,       \* let after
  page,        \* let page
  variables,   \* const variables of the current iteration (the page request)
  data,        \* let data of the current iteration
  sleepMs,     \* argument of the sleep() main is suspended at, else 0
  rlNow,       \* const now of the rate-limit branch
  fatal,       \* err.message caught around callGithub, else "none"
  op,          \* the RetryOperation of the current callGithub call
  promise,     \* state of the promise callGithub returned
  schemaCalls, \* calls of ensureSchema
  upsertCalls, \* calls of upsertRepos
  persisted,   \* rows handed to upsertRepos calls that resolved
  poolCalls,   \* calls of closePool
  reported,    \* value printed by 'Crawl complete. Collected:', else -1
  exitCode,    \* process exit code, -1 while the process runs
  batches,     \* sizes of the batches handed to upsertRepos, in call order
  faults       \* TRUE once a transport, application, quota or DB fault occurred

vars == <<pc, target, collected, after, page, variables, data, sleepMs, rlNow,
          fatal, op, promise, schemaCalls, upsertCalls, persisted, poolCalls,
          reported, exitCode, batches, faults>>

\* -------------------------------------------------- retry wrapper helpers
RECURSIVE Pow(_, _)
Pow(b, e) == IF e = 0 THEN 1 ELSE b * Pow(b, e - 1)

\* Math.round of n / d for n, d > 0.
RoundDiv(n, d) == (2 * n + d) \div (2 * d)

Max(a, b) == IF a >= b THEN a ELSE b

\* Mutant of CreateTimeout: constant instead of exponential backoff.
CreateTimeout_Constant(attempt, r) == RoundDiv(r * Max(MIN_TIMEOUT, 1), 1000)

\* node-retry createTimeout(attempt, opts) with randomize (async-retry's
\* default, callGithub does not override it); r is 1000 * (Math.random() + 1).
CreateTimeout(attempt, r) ==
  RoundDiv(r * Max(MIN_TIMEOUT, 1) * Pow(FACTOR, attempt), 1000)

RECURSIVE Insert(_, _)
Insert(x, s) ==
  IF s = <<>> THEN <<x>>
  ELSE IF x <= Head(s) THEN <<x>> \o s
  ELSE <<Head(s)>> \o Insert(x, Tail(s))

RECURSIVE SortAsc(_)
SortAsc(s) == IF s = <<>> THEN <<>> ELSE Insert(Head(s), SortAsc(Tail(s)))

\* Mutant of Timeouts: two retries fewer.
Timeouts_Short(rs) ==
  SortAsc([i \in 1..(RETRIES - 2) |-> CreateTimeout(i - 1, rs[i])])

\* node-retry timeouts(opts): one timeout per retry, sorted ascending.
Timeouts(rs) == SortAsc([i \in 1..RETRIES |-> CreateTimeout(i - 1, rs[i])])

\* node-retry mainError(): the error whose message occurred most often, the
\* later one on a tie.
RECURSIVE MainErrorFrom(_, _, _, _)
MainErrorFrom(errs, i, main, mainCount) ==
  IF i > Len(errs) THEN main
  ELSE LET count == Cardinality({j \in 1..i : errs[j] = errs[i]})
       IN IF count >= mainCount
          THEN MainErrorFrom(errs, i + 1, errs[i], count)
          ELSE MainErrorFrom(errs, i + 1, main, mainCount)

MainError(errs) == MainErrorFrom(errs, 1, "none", 0)

IdleOp == [status |-> "idle", attempts |-> 0, timeouts |-> <<>>,
           errors |-> <<>>, timer |-> 0]

\* retrier.operation(options) followed by op.attempt(runAttempt): the first
\* transport attempt is in flight.
NewOperation(rs) == [status |-> "running", attempts |-> 1,
                     timeouts |-> Timeouts(rs), errors |-> <<>>, timer |-> 0]

\* The catch clause of callGithub: does this failure call bail()?
IsUnauthorized(kind) == kind = "http401"

\* ----------------------------------------------------------------- Init
Init ==
  /\ pc = "start"
  /\ target \in Targets
  /\ collected = 0
  /\ after = NullCursor
  /\ page = 0
  /\ variables = [queryString |-> Q, first |-> PAGE_SIZE, after |-> NullCursor]
  /\ data = NoData
  /\ sleepMs = 0
  /\ rlNow = 0
  /\ fatal = "none"
  /\ op = IdleOp
  /\ promise = "none"
  /\ schemaCalls = 0
  /\ upsertCalls = 0
  /\ persisted = 0
  /\ poolCalls = 0
  /\ reported = -1
  /\ exitCode = -1
  /\ batches = <<>>
  /\ faults = FALSE

\* ------------------------------------------------- fragments of main()
\* Mutant of Falsy: only null is tested.
Falsy_NullOnly(c) == c = NullCursor

\* JavaScript truthiness of a cursor: null and "" are falsy.
Falsy(c) == c \in {NullCursor, EmptyCursor}

\* Mutant of LowQuota: the threshold itself is not treated as low.
LowQuota_Strict(rl) == rl.present /\ rl.remaining < RL_THRESHOLD

\* Mutant of HasErrors: errors that come with data are ignored.
HasErrors_OnlyWithoutData(resp) == resp.errors /\ ~resp.hasData

\* if (data.errors)
HasErrors(resp) == resp.errors

\* The rate-limit test of main().
LowQuota(rl) == rl.present /\ rl.remaining <= RL_THRESHOLD

\* Mutant of RateLimitWait: the safety margin is left out.
RateLimitWait_NoMargin(resetAt, now) == Max(RL_MIN_WAIT, resetAt - now)

\* const wait = Math.max(1000, resetAt - now + 2000)
RateLimitWait(resetAt, now) == Max(RL_MIN_WAIT, resetAt - now + RL_MARGIN)

\* Mutant of BatchSize: a full page is assumed.
BatchSize_FullPage(search) == PAGE_SIZE

\* repos.length, the amount added to collected.
BatchSize(search) == search.edges

\* Mutant of NoResults: an empty page stops the crawl only on the last page.
NoResults_UnlessMore(search) ==
  ~search.present \/ (search.edges = 0 /\ ~search.hasNextPage)

\* The test that ends the crawl with 'No more results from search'.
NoResults(search) == ~search.present \/ search.edges = 0

\* main() rejected: the top-level catch calls process.exit(1).
Crash ==
  /\ pc' = "exited"
  /\ exitCode' = 1
  /\ UNCHANGED <<collected, after, page, variables, sleepMs, poolCalls,
                 reported>>

\* The loop was left (break, or its condition is false): 'Crawl complete' is
\* printed and closePool() is called.
Finish(c, a) ==
  /\ pc' = "closePool"
  /\ collected' = c
  /\ after' = a
  /\ sleepMs' = 0
  /\ reported' = c
  /\ poolCalls' = poolCalls + 1
  /\ UNCHANGED <<page, variables, exitCode>>

\* Mutant of PageRequest: every request asks for the first page.
PageRequest_Restart(a) ==
  [queryString |-> Q, first |-> PAGE_SIZE, after |-> NullCursor]

\* const variables = { queryString: q, first: PAGE_SIZE, after }
PageRequest(a) == [queryString |-> Q, first |-> PAGE_SIZE, after |-> a]

\* Mutant of WhileLoop: the loop goes on while collected <= TARGET_REPOS.
WhileLoop_Inclusive(c, a) ==
  IF c <= target
  THEN /\ page < MaxPage
       /\ page' = page + 1
       /\ variables' = PageRequest(a)
       /\ data' = NoData
       /\ \E rs \in RandomRuns : op' = NewOperation(rs)
       /\ promise' = "pending"
       /\ pc' = "callGithub"
       /\ collected' = c
       /\ after' = a
       /\ sleepMs' = 0
       /\ UNCHANGED <<poolCalls, reported, exitCode>>
  ELSE /\ Finish(c, a)
       /\ UNCHANGED <<op, promise, data>>

\* The test of the while loop with collected = c and after = a and, when it
\* holds, the start of the iteration up to the await of callGithub.
WhileLoop(c, a) ==
  IF c < target
  THEN /\ page < MaxPage
       /\ page' = page + 1
       /\ variables' = PageRequest(a)
       /\ data' = NoData
       /\ \E rs \in RandomRuns : op' = NewOperation(rs)
       /\ promise' = "pending"
       /\ pc' = "callGithub"
       /\ collected' = c
       /\ after' = a
       /\ sleepMs' = 0
       /\ UNCHANGED <<poolCalls, reported, exitCode>>
  ELSE /\ Finish(c, a)
       /\ UNCHANGED <<op, promise, data>>

\* The statements after the try/catch around upsertRepos, with collected = c.
Paginate(c) ==
  IF ~data.search.hasNextPage
  THEN Finish(c, data.search.endCursor) /\ UNCHANGED data
  ELSE /\ pc' = "sleep200"
       /\ sleepMs' = THROTTLE_SLEEP
       /\ collected' = c
       /\ after' = data.search.endCursor
       /\ UNCHANGED <<page, variables, data, poolCalls, reported, exitCode>>

\* callGithub resolved with resp: main() from the test of data.errors up to
\* its next await.
ProcessResponse(resp) ==
  /\ data' = resp
  /\ IF HasErrors(resp)
     THEN /\ pc' = "sleep5000"
          /\ sleepMs' = ERROR_SLEEP
          /\ faults' = TRUE
          /\ UNCHANGED <<collected, after, page, variables, poolCalls, reported,
                         exitCode, rlNow, upsertCalls, batches>>
     ELSE IF ~resp.hasData
     THEN /\ Crash
          /\ UNCHANGED <<rlNow, upsertCalls, batches, faults>>
     ELSE IF LowQuota(resp.rateLimit)
     THEN /\ pc' = "sleepRL"
          /\ \E now \in Nows :
               /\ rlNow' = now
               /\ sleepMs' = RateLimitWait(resp.rateLimit.resetAt, now)
          /\ faults' = TRUE
          /\ UNCHANGED <<collected, after, page, variables, poolCalls, reported,
                         exitCode, upsertCalls, batches>>
     ELSE IF NoResults(resp.search)
     THEN /\ Finish(collected, after)
          /\ UNCHANGED <<rlNow, upsertCalls, batches, faults>>
     ELSE /\ pc' = "upsertRepos"
          /\ upsertCalls' = upsertCalls + 1
          /\ batches' = Append(batches, resp.search.edges)
          /\ UNCHANGED <<collected, after, page, variables, sleepMs, poolCalls,
                         reported, exitCode, rlNow, faults>>

\* ---------------------------------------------------------------- actions
\* Mutant of Start: the crawl starts without calling ensureSchema().
Start_NoSchema ==
  /\ pc = "start"
  /\ pc' = "ensureSchema"
  /\ UNCHANGED <<target, collected, after, page, variables, data, sleepMs,
                 rlNow, fatal, op, promise, schemaCalls, upsertCalls, persisted,
                 poolCalls, reported, exitCode, batches, faults>>

\* main() is called and awaits ensureSchema().
Start ==
  /\ pc = "start"
  /\ pc' = "ensureSchema"
  /\ schemaCalls' = schemaCalls + 1
  /\ UNCHANGED <<target, collected, after, page, variables, data, sleepMs,
                 rlNow, fatal, op, promise, upsertCalls, persisted, poolCalls,
                 reported, exitCode, batches, faults>>

EnsureSchemaOk ==
  /\ pc = "ensureSchema"
  /\ WhileLoop(0, NullCursor)
  /\ UNCHANGED <<target, rlNow, fatal, schemaCalls, upsertCalls, persisted,
                 batches, faults>>

EnsureSchemaFails ==
  /\ pc = "ensureSchema"
  /\ Crash
  /\ UNCHANGED <<data, target, rlNow, fatal, op, promise, schemaCalls, upsertCalls,
                 persisted, batches, faults>>

\* op.retry(err) of node-retry: record the error and schedule the next attempt
\* if a timeout is left.
Retry(o, kind) ==
  IF o.timeouts = <<>>
  THEN [o EXCEPT !.status = "finished", !.errors = Append(o.errors, kind)]
  ELSE [o EXCEPT !.status = "waiting", !.errors = Append(o.errors, kind),
                 !.timer = Head(o.timeouts), !.timeouts = Tail(o.timeouts)]

\* The error callGithub's promise is rejected with when the attempt of
\* operation o fails with kind, "none" if this failure does not reject it:
\* bail(new Error('Unauthorized - check token')), or reject(op.mainError())
\* once op.retry() returns false.
Rejection(o, kind) ==
  IF IsUnauthorized(kind) THEN "Unauthorized - check token"
  ELSE IF Retry(o, kind).status = "finished" THEN MainError(Retry(o, kind).errors)
  ELSE "none"

\* Mutant of CatchFatal: the error is rethrown out of main().
CatchFatal_Rethrow(msg) ==
  /\ promise' = "rejected"
  /\ fatal' = msg
  /\ Crash
  /\ UNCHANGED data

\* callGithub rejected with msg: the catch clause of main() logs
\* 'Fatal error calling GitHub' and breaks out of the loop.
CatchFatal(msg) ==
  /\ promise' = "rejected"
  /\ fatal' = msg
  /\ Finish(collected, after)
  /\ UNCHANGED data

\* A transport attempt fails: the catch clause of callGithub (bail on 401,
\* then throw err in every case) and async-retry's onError.
AttemptFails(kind) ==
  /\ exitCode = -1
  /\ op.status = "running"
  /\ op' = Retry(op, kind)
  /\ faults' = TRUE
  /\ IF promise = "pending" /\ Rejection(op, kind) # "none"
     THEN CatchFatal(Rejection(op, kind))
     ELSE UNCHANGED <<promise, fatal, pc, collected, after, page, variables,
                      data, sleepMs, poolCalls, reported, exitCode>>
  /\ UNCHANGED <<target, rlNow, schemaCalls, upsertCalls, persisted, batches>>

\* The backoff timer of the retry operation fires: the next attempt starts.
TimerFires ==
  /\ exitCode = -1
  /\ op.status = "waiting"
  /\ op' = [op EXCEPT !.status = "running", !.attempts = op.attempts + 1,
                      !.timer = 0]
  /\ UNCHANGED <<pc, target, collected, after, page, variables, data, sleepMs,
                 rlNow, fatal, promise, schemaCalls, upsertCalls, persisted,
                 poolCalls, reported, exitCode, batches, faults>>

\* A transport attempt returns resp.data: the operation is over (of its
\* fields only the attempt count is kept).
AttemptSucceeds(resp) ==
  /\ exitCode = -1
  /\ op.status = "running"
  /\ op' = [IdleOp EXCEPT !.attempts = op.attempts]
  /\ IF promise = "pending"
     THEN /\ promise' = "resolved"
          /\ ProcessResponse(resp)
     ELSE UNCHANGED <<promise, pc, collected, after, page, variables, data,
                      sleepMs, poolCalls, reported, exitCode, rlNow,
                      upsertCalls, batches, faults>>
  /\ UNCHANGED <<target, fatal, schemaCalls, persisted>>

Sleep5000Done ==
  /\ pc = "sleep5000"
  /\ WhileLoop(collected, after)
  /\ UNCHANGED <<target, rlNow, fatal, schemaCalls, upsertCalls, persisted,
                 batches, faults>>

SleepRLDone ==
  /\ pc = "sleepRL"
  /\ WhileLoop(collected, after)
  /\ rlNow' = 0
  /\ UNCHANGED <<target, fatal, schemaCalls, upsertCalls, persisted,
                 batches, faults>>

\* Mutant of UpsertOk: the batch is counted twice.
UpsertOk_CountsTwice ==
  /\ pc = "upsertRepos"
  /\ persisted' = persisted + data.search.edges
  /\ Paginate(collected + 2 * BatchSize(data.search))
  /\ UNCHANGED <<target, rlNow, fatal, op, promise, schemaCalls, upsertCalls,
                 batches, faults>>

\* await upsertRepos(repos) resolved: collected += repos.length, then the
\* pagination statements.
UpsertOk ==
  /\ pc = "upsertRepos"
  /\ persisted' = persisted + data.search.edges
  /\ Paginate(collected + BatchSize(data.search))
  /\ UNCHANGED <<target, rlNow, fatal, op, promise, schemaCalls, upsertCalls,
                 batches, faults>>

\* Mutant of UpsertFails: the rejected batch is counted all the same.
UpsertFails_Counts ==
  /\ pc = "upsertRepos"
  /\ pc' = "sleep3000"
  /\ sleepMs' = DB_SLEEP
  /\ faults' = TRUE
  /\ collected' = collected + BatchSize(data.search)
  /\ UNCHANGED <<target, after, page, variables, data, rlNow, fatal,
                 op, promise, schemaCalls, upsertCalls, persisted, poolCalls,
                 reported, exitCode, batches>>

\* await upsertRepos(repos) rejected: the catch block starts sleep(3000).
UpsertFails ==
  /\ pc = "upsertRepos"
  /\ pc' = "sleep3000"
  /\ sleepMs' = DB_SLEEP
  /\ faults' = TRUE
  /\ UNCHANGED <<target, collected, after, page, variables, data, rlNow, fatal,
                 op, promise, schemaCalls, upsertCalls, persisted, poolCalls,
                 reported, exitCode, batches>>

Sleep3000Done ==
  /\ pc = "sleep3000"
  /\ Paginate(collected)
  /\ UNCHANGED <<target, rlNow, fatal, op, promise, schemaCalls, upsertCalls,
                 persisted, batches, faults>>

Sleep200Done ==
  /\ pc = "sleep200"
  /\ IF Falsy(after)
     THEN Finish(collected, after) /\ UNCHANGED <<op, promise, data>>
     ELSE WhileLoop(collected, after)
  /\ UNCHANGED <<target, rlNow, fatal, schemaCalls, upsertCalls, persisted,
                 batches, faults>>

ClosePoolOk ==
  /\ pc = "closePool"
  /\ pc' = "done"
  /\ UNCHANGED <<target, collected, after, page, variables, data, sleepMs,
                 rlNow, fatal, op, promise, schemaCalls, upsertCalls, persisted,
                 poolCalls, reported, exitCode, batches, faults>>

\* closePool() rejects: process.exit(1) also ends a retry operation that is
\* still running.
ClosePoolFails ==
  /\ pc = "closePool"
  /\ Crash
  /\ op' = IdleOp
  /\ UNCHANGED <<data, target, rlNow, fatal, promise, schemaCalls, upsertCalls,
                 persisted, batches, faults>>

\* Mutant of ProcessExits: a fatal callGithub error sets the exit code.
ProcessExits_FatalCode ==
  /\ pc = "done"
  /\ op.status \notin {"running", "waiting"}
  /\ pc' = "exited"
  /\ exitCode' = (IF fatal # "none" THEN 1 ELSE 0)
  /\ op' = IdleOp
  /\ UNCHANGED <<target, collected, after, page, variables, data, sleepMs,
                 rlNow, fatal, promise, schemaCalls, upsertCalls, persisted,
                 poolCalls, reported, batches, faults>>

\* main() resolved and nothing is left on the event loop: node exits with 0.
ProcessExits ==
  /\ pc = "done"
  /\ op.status \notin {"running", "waiting"}
  /\ pc' = "exited"
  /\ exitCode' = 0
  /\ op' = IdleOp
  /\ UNCHANGED <<target, collected, after, page, variables, data, sleepMs,
                 rlNow, fatal, promise, schemaCalls, upsertCalls, persisted,
                 poolCalls, reported, batches, faults>>

Next ==
  \/ Start
  \/ EnsureSchemaOk
  \/ EnsureSchemaFails
  \/ \E kind \in FailureKinds : AttemptFails(kind)
  \/ TimerFires
  \/ \E resp \in Responses(variables) : AttemptSucceeds(resp)
  \/ Sleep5000Done
  \/ SleepRLDone
  \/ UpsertOk
  \/ UpsertFails
  \/ Sleep3000Done
  \/ Sleep200Done
  \/ ClosePoolOk
  \/ ClosePoolFails
  \/ ProcessExits

Spec == Init /\ [][Next]_vars

\* ================================================================ claims
NoUnauthorized(errs) == \A i \in 1..Len(errs) : errs[i] # "http401"

Count(kind, errs) == Cardinality({i \in 1..Len(errs) : errs[i] = kind})

\* A response body has just been handed to main() by this step.
Received == promise = "pending" /\ promise' = "resolved"

Ended == pc \in {"closePool", "done", "exited"}

\* C1: when upsertRepos fails, collected and the cursor stay as they are, and
\* after the 3000ms sleep the next request carries the cursor of the request
\* whose page was not persisted; the failure does not end the crawl.
C1_PersistFailureRetriesSamePage ==
  [][/\ (pc = "upsertRepos" /\ pc' = "sleep3000")
          => (collected' = collected /\ after' = after /\ sleepMs' = 3000)
     /\ pc = "sleep3000"
          => (/\ collected' = collected
              /\ after' = after
              /\ pc' = "callGithub"
              /\ variables'.after = variables.after)]_vars

\* C2: a response without application errors whose quota snapshot has
\* remaining <= 10 puts main() to sleep, leaves the cursor and collected as
\* they are, persists nothing, and the request issued after the sleep carries
\* the same cursor.
C2_LowQuotaRetriesSamePage ==
  [][/\ (/\ Received
         /\ ~data'.errors /\ data'.hasData
         /\ data'.rateLimit.present /\ data'.rateLimit.remaining <= 10)
          => (/\ pc' = "sleepRL"
              /\ sleepMs' >= 1000
              /\ after' = after /\ collected' = collected
              /\ upsertCalls' = upsertCalls /\ persisted' = persisted
              /\ batches' = batches)
     /\ pc = "sleepRL"
          => (/\ pc' = "callGithub"
              /\ variables'.after = variables.after
              /\ after' = after /\ collected' = collected
              /\ upsertCalls' = upsertCalls /\ persisted' = persisted)]_vars

C2_Witness ==
  /\ pc = "sleepRL" /\ page = 3 /\ upsertCalls = 1
  /\ after = "c1" /\ variables.after = "c1" /\ collected = 100

\* C3: the rate-limit wait is max(1000, resetAt - now + 2000): at least 1000,
\* at least 32000 when resetAt is 30s after now; it only happens for
\* remaining <= 10.
C3_RateLimitWait ==
  pc = "sleepRL" =>
    LET d == data.rateLimit.resetAt - rlNow
    IN /\ data.rateLimit.present /\ data.rateLimit.remaining <= 10
       /\ sleepMs = (IF d + 2000 >= 1000 THEN d + 2000 ELSE 1000)
       /\ sleepMs >= 1000
       /\ d = 30000 => sleepMs >= 32000

C3_Witness ==
  /\ pc = "sleepRL"
  /\ data.rateLimit.remaining = 5
  /\ data.rateLimit.resetAt - rlNow = 30000
  /\ sleepMs = 32000

\* C4: after an attempt failed with HTTP 401 the retry wrapper makes no
\* further attempt and schedules no backoff, callGithub has rejected with the
\* fatal error and the crawl has ended.
C4_UnauthorizedStopsRetrying ==
  \A i \in 1..Len(op.errors) :
    op.errors[i] = "http401" =>
      /\ op.attempts = i
      /\ op.status # "waiting"
      /\ promise = "rejected"
      /\ fatal = "Unauthorized - check token"
      /\ Ended

\* C5 as stated: at most 5 transport attempts per request, a wait of exactly
\* 1000 * 2^(k-1) ms after attempt k, and the last error surfaced after the
\* 5th failure.
C5_FiveAttemptsExactBackoff ==
  /\ op.attempts <= 5
  /\ op.status = "waiting" => op.timer = 1000 * Pow(2, op.attempts - 1)
  /\ (op.status = "finished" /\ NoUnauthorized(op.errors))
       => (Len(op.errors) = 5 /\ fatal = op.errors[Len(op.errors)])

\* C5 amended: at most 6 transport attempts per request (1 + 5 retries), a
\* wait between 1000 * 2^(k-1) and 2000 * 2^(k-1) ms after attempt k, and
\* after the 6th non-401 failure callGithub rejects with an error whose
\* message occurred most often among the six.
C5_SixAttemptsRandomizedBackoff ==
  /\ op.attempts <= 6
  /\ op.status = "waiting"
       => /\ op.timer >= 1000 * Pow(2, op.attempts - 1)
          /\ op.timer <= 2000 * Pow(2, op.attempts - 1)
  /\ op.status = "finished" => (Len(op.errors) = 6 /\ op.attempts = 6)
  /\ (promise = "rejected" /\ op.status \in {"running", "waiting"})
       => ~NoUnauthorized(op.errors)
  /\ (op.status = "finished" /\ NoUnauthorized(op.errors))
       => /\ promise = "rejected"
          /\ Count(fatal, op.errors) >= 1
          /\ \A k \in FailureKinds : Count(k, op.errors) <= Count(fatal, op.errors)

C5_Witness ==
  /\ op.status = "finished" /\ NoUnauthorized(op.errors)
  /\ op.attempts = 6
  /\ fatal = "network" /\ op.errors[6] = "http5xx"

\* C6: after 4 transient failures the request is still being retried, and a
\* success of the 5th attempt resolves callGithub with that response, which
\* main() handles as any page (a non-empty clean page goes to upsertRepos).
C6_SuccessAfterFourFailures ==
  [][/\ (Len(op.errors) = 4 /\ NoUnauthorized(op.errors))
          => (/\ promise = "pending" /\ pc = "callGithub" /\ fatal = "none"
              /\ op.status \in {"waiting", "running"})
     /\ (/\ op.status = "running" /\ Len(op.errors) = 4
         /\ NoUnauthorized(op.errors) /\ op'.status = "idle")
          => (/\ promise' = "resolved"
              /\ data' \in Responses(variables)
              /\ fatal' = "none"
              /\ (/\ ~data'.errors /\ data'.hasData
                  /\ ~(data'.rateLimit.present /\ data'.rateLimit.remaining <= 10)
                  /\ data'.search.present /\ data'.search.edges > 0)
                   => (/\ pc' = "upsertRepos" /\ exitCode' = -1
                       /\ batches' = Append(batches, data'.search.edges)))]_vars

C6_Witness ==
  /\ pc = "upsertRepos" /\ promise = "resolved" /\ fatal = "none"
  /\ op.status = "idle" /\ op.attempts = 5

\* C7 as stated: a response page with zero records ends the crawl on that
\* iteration whatever else the response holds.
C7_EmptyPageAlwaysStops ==
  [][(Received /\ data'.search.present /\ data'.search.edges = 0)
       => (pc' = "closePool" /\ page' = page)]_vars

\* C7 amended: a response that carries no application errors and no quota
\* snapshot with remaining <= 10 and has zero records ends the crawl on that
\* iteration, whatever hasNextPage says; after the end no request is issued.
C7_EmptyCleanPageStops ==
  [][/\ (/\ Received
         /\ ~data'.errors /\ data'.hasData
         /\ ~(data'.rateLimit.present /\ data'.rateLimit.remaining <= 10)
         /\ (~data'.search.present \/ data'.search.edges = 0))
          => (/\ pc' = "closePool" /\ page' = page
              /\ upsertCalls' = upsertCalls /\ collected' = collected)
     /\ Ended => (page' = page /\ pc' # "callGithub")]_vars

C7_Witness ==
  /\ pc = "closePool" /\ fatal = "none"
  /\ data.search.present /\ data.search.edges = 0 /\ data.search.hasNextPage
  /\ data.search.endCursor = "c2"

\* C8: a successful upsertRepos adds the batch size to collected and sets the
\* cursor to the response's endCursor; the crawl ends if hasNextPage is false
\* and ends if the new cursor is null or empty; otherwise a following request
\* carries the new cursor.
C8_AdvanceAfterPersist ==
  [][/\ (pc = "upsertRepos" /\ persisted' # persisted)
          => (/\ collected' = collected + data.search.edges
              /\ after' = data.search.endCursor
              /\ pc' = (IF data.search.hasNextPage THEN "sleep200"
                        ELSE "closePool"))
     /\ pc = "sleep200"
          => (/\ after' = after /\ collected' = collected
              /\ after \in {NullCursor, EmptyCursor} => pc' = "closePool"
              /\ pc' \in {"callGithub", "closePool"}
              /\ pc' = "callGithub" => variables'.after = after)]_vars

C8_Witness ==
  /\ pc = "callGithub" /\ page = 2 /\ variables.after = "c1"
  /\ collected = 100 /\ persisted = 100 /\ ~faults

\* C9: with target 250 and no fault, when the remote has returned 100, 100 and
\* 50 records, the last page with hasNextPage = false, exactly 3 requests
\* were issued and the crawl ends with collected = 250.
C9_ThreePagesFor250 ==
  (/\ target = 250 /\ ~faults
   /\ batches = <<100, 100, 50>>
   /\ ~data.search.hasNextPage)
    => (/\ page = 3
        /\ pc \in {"upsertRepos", "closePool", "done", "exited"}
        /\ pc # "upsertRepos" => (collected = 250 /\ reported = 250))

C9_Witness ==
  /\ target = 250 /\ ~faults /\ batches = <<100, 100, 50>>
  /\ ~data.search.hasNextPage
  /\ pc = "exited" /\ exitCode = 0 /\ page = 3 /\ collected = 250

\* C10 as stated: a crawl ended by a fatal callGithub failure exits with a
\* non-zero code.
C10_FatalExitsNonZero ==
  (fatal # "none" /\ exitCode # -1) => exitCode # 0

\* C10 amended: a fatal callGithub failure leaves the loop and calls
\* closePool without exiting, and once closePool has resolved the process
\* exits with code 0; exit code 1 comes only from a failure of ensureSchema or
\* closePool or from a response body without data and errors, never from an
\* application error, a low quota or a persistence failure.
C10_FatalStillExitsZero ==
  [][/\ (fatal = "none" /\ fatal' # "none")
          => (pc' = "closePool" /\ exitCode' = -1 /\ poolCalls' = poolCalls + 1)
     /\ pc = "done" => exitCode' \in {-1, 0}
     /\ (exitCode = -1 /\ exitCode' = 1)
          => \/ pc \in {"ensureSchema", "closePool"}
             \/ (pc = "callGithub" /\ Received
                 /\ ~data'.errors /\ ~data'.hasData)]_vars

C10_Witness ==
  /\ fatal # "none" /\ pc = "exited" /\ exitCode = 0 /\ poolCalls = 1

\* C11: on every exit path of main(), the rejections caught at top level and
\* turned into exit code 1 included, closePool has been called, exactly once.
C11_PoolClosedOnEveryExit ==
  /\ poolCalls <= 1
  /\ exitCode # -1 => poolCalls = 1

\* C12: a response with application errors does not end the crawl: main()
\* sleeps 5000ms with the cursor and collected as they were, persists nothing,
\* does not act on the quota snapshot, and then re-issues the same request.
C12_ErrorsRetrySamePage ==
  [][/\ (Received /\ data'.errors)
          => (/\ pc' = "sleep5000" /\ sleepMs' = 5000
              /\ exitCode' = -1 /\ poolCalls' = poolCalls
              /\ after' = after /\ collected' = collected
              /\ upsertCalls' = upsertCalls /\ persisted' = persisted
              /\ batches' = batches /\ rlNow' = rlNow)
     /\ pc = "sleep5000"
          => (/\ pc' = "callGithub"
              /\ variables' = variables
              /\ after' = after /\ collected' = collected
              /\ upsertCalls' = upsertCalls /\ persisted' = persisted)]_vars

C12_Witness ==
  /\ pc = "sleep5000" /\ page = 3 /\ upsertCalls = 0 /\ after = NullCursor
  /\ data.errors /\ data.hasData
  /\ data.rateLimit.present /\ data.rateLimit.remaining <= 10

\* C13: ensureSchema is called once, before anything else, and has resolved
\* before the first page request; if it fails the process exits without any
\* page request or upsert.
C13_SchemaBeforeFirstRequest ==
  [][/\ schemaCalls <= 1
     /\ pc # "start" => schemaCalls = 1
     /\ pc \in {"start", "ensureSchema"}
          => (page = 0 /\ upsertCalls = 0 /\ op = IdleOp /\ promise = "none")
     /\ (pc = "ensureSchema" /\ exitCode' = 1)
          => (pc' = "exited" /\ page' = 0 /\ upsertCalls' = 0 /\ op' = IdleOp)
     /\ pc = "exited" => (page' = page /\ upsertCalls' = upsertCalls)
     /\ schemaCalls' = schemaCalls \/ pc = "start"]_vars

C13_Witness ==
  /\ pc = "callGithub" /\ page = 1 /\ schemaCalls = 1 /\ op.status = "running"

\* C14: a page request is only issued while collected < target (none at all
\* for target <= 0), the loop is left at its test as soon as collected >=
\* target, and it is left only for that reason or by a terminate signal: a
\* fatal transport error, an empty page, hasNextPage false, a missing cursor.
C14_LoopExits ==
  [][/\ page' # page
          => (/\ page' = page + 1 /\ pc' = "callGithub"
              /\ collected < target /\ collected' = collected)
     /\ target <= 0 => (page = 0 /\ page' = 0)
     /\ (/\ pc \in {"ensureSchema", "sleep5000", "sleepRL", "sleep200"}
         /\ pc' # "exited" /\ collected' >= target)
          => pc' = "closePool"
     /\ (pc # "closePool" /\ pc' = "closePool")
          => \/ collected' >= target
             \/ fatal = "none" /\ fatal' # "none"
             \/ Received /\ (~data'.search.present \/ data'.search.edges = 0)
             \/ pc \in {"upsertRepos", "sleep3000"} /\ ~data.search.hasNextPage
             \/ pc = "sleep200" /\ after \in {NullCursor, EmptyCursor}]_vars

C14_Witness ==
  /\ pc = "closePool" /\ target = 150 /\ collected = 200 /\ page = 2
  /\ fatal = "none" /\ data.search.hasNextPage /\ after = "c2"

\* C15: the process exits with code 0 once main() has resolved, whatever made
\* the loop end (target reached, no more pages, empty page, fatal error), and
\* with code 1 only when main() rejected.
C15_ExitCodes ==
  [][/\ exitCode \in {-1, 0, 1}
     /\ exitCode # -1 => exitCode' = exitCode
     /\ (pc # "closePool" /\ pc' = "closePool") => exitCode' = -1
     /\ (pc # "done" /\ pc' = "done") => (pc = "closePool" /\ exitCode' = -1)
     /\ pc = "done" => exitCode' \in {-1, 0}
     /\ (exitCode = -1 /\ exitCode' = 0) => (pc = "done" /\ poolCalls = 1)
     /\ (exitCode = -1 /\ exitCode' = 1)
          => \/ pc \in {"ensureSchema", "closePool"}
             \/ (Received /\ ~data'.errors /\ ~data'.hasData)]_vars

C15_Witness ==
  /\ pc = "exited" /\ exitCode = 0 /\ fatal = "Unauthorized - check token"
  /\ reported = 100 /\ page = 2

\* C16: the cursor, the page counter and the collected count change only
\* with a successfully persisted page: the iteration that follows an
\* application-error sleep, a rate-limit sleep or a failed upsert starts with
\* all three unchanged.
C16_StateOnlyOnPersistedPage ==
  [][(pc = "sleep5000" \/ pc = "sleepRL" \/ pc = "sleep3000")
       => (after' = after /\ page' = page /\ collected' = collected)]_vars

\* C17: every page request asks for at most 100 records; its cursor is the
\* loop's cursor, which is null only while no page has been processed and
\* otherwise the endCursor of the response processed last (a retry repeats the
\* cursor of the request before it).
C17_RequestCursor ==
  [][(page' # page)
       => (/\ variables'.first <= 100
           /\ variables'.queryString = "stars:>0"
           /\ variables'.after = after'
           /\ variables'.after # EmptyCursor
           /\ variables'.after = NullCursor
                => (batches = <<>> /\ pc \in {"ensureSchema", "sleep5000",
                                               "sleepRL"})
           /\ pc \in {"sleep5000", "sleepRL"}
                => variables'.after = variables.after
           /\ pc = "sleep200"
                => (/\ variables'.after = data.search.endCursor
                    /\ PagePos(variables'.after) = PagePos(variables.after) + 1
                    /\ batches # <<>>))]_vars

C17_Witness ==
  /\ pc = "callGithub" /\ page = 3 /\ variables.after = "c2"
  /\ variables.first = 100 /\ batches = <<100, 50>>

\* C18: with finitely many faults a run that entered the crawl loop ends with
\* closePool called: once the first request is out, the program comes to rest
\* (no step is possible any more) only after closePool has been called. Runs
\* cut short by the page bound MaxPage are left aside.
C18_RestsOnlyAfterClosePool ==
  (page >= 1 /\ ~ENABLED Next) => (poolCalls >= 1 \/ page = MaxPage)

\* C19: collected is the sum of the sizes of the batches upsertRepos accepted:
\* it only grows, and only by the size of a batch whose upsert resolved; a
\* rejected upsert, a discarded response and a fatal error leave it alone, and
\* the value reported at 'Crawl complete' is that sum.
C19_CollectedIsPersistedSum ==
  [][/\ collected = persisted /\ collected' = persisted'
     /\ collected' >= collected
     /\ (collected' # collected)
          => (/\ pc = "upsertRepos" /\ pc' # "sleep3000"
              /\ collected' = collected + data.search.edges)
     /\ (pc = "upsertRepos" /\ pc' = "sleep3000") => collected' = collected
     /\ (Received /\ (data'.errors \/ pc' = "sleepRL"))
          => collected' = collected
     /\ (fatal' # fatal) => collected' = collected
     /\ (reported' # reported) => reported' = persisted']_vars

C19_Witness ==
  /\ pc = "closePool" /\ target = 250 /\ reported = 150 /\ upsertCalls = 3
  /\ batches = <<100, 100, 50>> /\ persisted = 150

\* C20: the collected count stays below target + 100 (for a target >= 1)
\* although it may pass the target, and it is at most the target (in fact
\* below it) whenever a request is outstanding.
C20_BoundedOvershoot ==
  /\ target >= 1 => collected < target + 100
  /\ pc = "callGithub" => (collected <= target /\ collected < target)

C20_Witness ==
  /\ pc = "exited" /\ target = 250 /\ collected = 300 /\ reported = 300
  /\ exitCode = 0

====
